---------------------------- MODULE Spec2Model ----------------------------
(***************************************************************************)
(* A model of dwc_quick_check.py: the merge of the three Darwin Core       *)
(* tables, the field checks run on the merged table, and the WoRMS name    *)
(* lookup with its lru_cache and its stamina retry wrapper.                *)
(*                                                                         *)
(* Three specifications share the module:                                  *)
(*   Spec          the script's __main__ run over bounded input tables     *)
(*   SpecField     check_latitude / check_longitude /                      *)
(*                 check_depth_consistency applied to one bounded table    *)
(*   SpecResolver  repeated calls of check_scientific_name, one network    *)
(*                 attempt per step                                        *)
(***************************************************************************)
EXTENDS Integers, Sequences, FiniteSets, TLC

VARIABLES
    \* ---- __main__ (lines 222-268)
    df_event, df_occurrence, df_emof,   \* the three loaded tables
    df,                                 \* check_merge_tables' first return value
    msg,                                \* check_merge_tables' second return value
    pc,                                 \* position of __main__
    printed,                            \* what the run has printed, in order
    \* ---- one field check applied to one table
    ftable,                             \* the table handed to the check
    latResult, lonResult, depthResult,  \* outcome of each check, or NotRun
    \* ---- check_scientific_name and its callers
    cache,                              \* lru_cache: entries, most recent last
    requests,                           \* requests.get calls issued, per name
    attempt,                            \* requests issued by the call in flight / last call
    rpc,                                \* "idle", or "fetch" while a call is in flight
    curName,                            \* the argument of the call in flight / last call
    lastOutcome,                        \* what that call's last requests.get produced
    lastResult,                         \* how the last call ended
    calls,                              \* completed calls, per name
    failedCalls                         \* completed calls that raised, per name

mainVars  == <<df_event, df_occurrence, df_emof, df, msg, pc, printed>>
fieldVars == <<ftable, latResult, lonResult, depthResult>>
resVars   == <<cache, requests, attempt, rpc, curName, lastOutcome, lastResult,
               calls, failedCalls>>
vars      == <<df_event, df_occurrence, df_emof, df, msg, pc, printed,
               ftable, latResult, lonResult, depthResult,
               cache, requests, attempt, rpc, curName, lastOutcome, lastResult,
               calls, failedCalls>>

---------------------------------------------------------------------------
(* Bounds of the model.                                                    *)
MaxEventRows == 2
MaxOccRows   == 2
MaxEmofRows  == 2
MaxFieldRows == 2
MaxCalls     == 3

---------------------------------------------------------------------------
(* Cells of a table.  A cell is a number, a null (NaN), or text.           *)
Num(x) == [t |-> "num", n |-> x, s |-> ""]
Str(x) == [t |-> "str", n |-> 0, s |-> x]
NaN    == [t |-> "nan", n |-> 0, s |-> ""]

None  == [cols |-> {"<None>"}, rows |-> <<>>]

\* Text that pd.to_numeric parses, and the number it parses to.
NumericText == {"95"}
ParseText(s) == IF s = "95" THEN 95 ELSE 0

\* pd.to_numeric(column, errors="coerce"), cell by cell.
ToNumeric(c) ==
    IF c.t = "str"
    THEN IF c.s \in NumericText THEN Num(ParseText(c.s)) ELSE NaN
    ELSE c

IsNa(c) == c.t = "nan"

RECURSIVE SeqToSet(_)
SeqToSet(s) == IF s = <<>> THEN {} ELSE {Head(s)} \cup SeqToSet(Tail(s))

Column(tbl, c) == [i \in 1..Len(tbl.rows) |-> tbl.rows[i][c]]

---------------------------------------------------------------------------
(* Required columns, lines 36-66.                                          *)
required_occurrence_columns ==
    {"occurrenceID", "scientificName", "eventDate", "decimalLatitude",
     "decimalLongitude", "basisOfRecord", "occurrenceStatus"}

required_emof_columns ==
    {"eventID", "occurrenceID", "measurementValue", "measurementType",
     "measurementUnit"}

required_event_columns ==
    {"eventID", "eventDate", "decimalLatitude", "decimalLongitude",
     "countryCode", "geodeticDatum"}

required_columns ==
    required_occurrence_columns \cup required_emof_columns
        \cup required_event_columns

---------------------------------------------------------------------------
(* pandas.DataFrame.merge(right, on=key, validate="one_to_many",           *)
(* suffixes=(lsuf, rsuf)), an inner join.  A table is [cols, rows]; a row  *)
(* is a function from the table's column labels to cells.                  *)

\* Whether a column holds the same value twice (the validation of the
\* "one" side of a one_to_many merge).
HasDuplicates(col) ==
    \E i, j \in 1..Len(col) : i # j /\ col[i] = col[j]

\* Labels, other than the key, that both sides carry: pandas renames them.
Overlap(lc, rc, key) == (lc \cap rc) \ {key}

\* The merged table's labels.  lsuf = "" stands for the suffix None, which
\* leaves the left label as it is.
MergeCols(lc, rc, key, lsuf, rsuf) ==
    (lc \ Overlap(lc, rc, key)) \cup (rc \ Overlap(lc, rc, key))
        \cup {c \o lsuf : c \in Overlap(lc, rc, key)}
        \cup {c \o rsuf : c \in Overlap(lc, rc, key)}

\* The merged row of a left row l and a right row r with the same key.
MergedRow(l, r, lc, rc, key, lsuf, rsuf) ==
    LET ov == Overlap(lc, rc, key)
    IN  [c \in MergeCols(lc, rc, key, lsuf, rsuf) |->
            IF c \in lc \ ov THEN l[c]
            ELSE IF c \in rc \ ov THEN r[c]
            ELSE IF \E o \in ov : o \o lsuf = c
                 THEN l[CHOOSE o \in ov : o \o lsuf = c]
                 ELSE r[CHOOSE o \in ov : o \o rsuf = c]]

\* The rows of the right table that match one left row, merged, in the
\* right table's order.
RECURSIVE MatchesOf(_, _, _, _, _, _, _)
MatchesOf(l, rrows, lc, rc, key, lsuf, rsuf) ==
    IF rrows = <<>> THEN <<>>
    ELSE (IF Head(rrows)[key] = l[key]
          THEN <<MergedRow(l, Head(rrows), lc, rc, key, lsuf, rsuf)>>
          ELSE <<>>)
         \o MatchesOf(l, Tail(rrows), lc, rc, key, lsuf, rsuf)

\* The inner join: left rows in order, each with its matches.
RECURSIVE JoinRows(_, _, _, _, _, _, _)
JoinRows(lrows, rrows, lc, rc, key, lsuf, rsuf) ==
    IF lrows = <<>> THEN <<>>
    ELSE MatchesOf(Head(lrows), rrows, lc, rc, key, lsuf, rsuf)
         \o JoinRows(Tail(lrows), rrows, lc, rc, key, lsuf, rsuf)

\* A merge that does not validate the left keys.
MergeKeysUnique_unvalidated(left, key) == TRUE

\* validate="one_to_many": pandas raises MergeError before joining when
\* the left key column is not unique.
MergeKeysUnique(left, key) == ~HasDuplicates(Column(left, key))

\* merge: [err |-> TRUE] for a raised MergeError, the joined table otherwise.
Merge(left, right, key, lsuf, rsuf) ==
    IF ~MergeKeysUnique(left, key)
    THEN [err |-> TRUE, tbl |-> None]
    ELSE [err |-> FALSE,
          tbl |-> [cols |-> MergeCols(left.cols, right.cols, key, lsuf, rsuf),
                   rows |-> JoinRows(left.rows, right.rows, left.cols,
                                     right.cols, key, lsuf, rsuf)]]

\* df.empty
Empty(tbl) == tbl.rows = <<>> \/ tbl.cols = {}

\* The three messages of check_merge_tables (lines 73, 78/84, 87).
MsgMergePassed  == "Merge tables passed!"
MsgMergeNoMatch == "Merge tables failed. Could not merge"
MsgMergeError   == "Merge tables failed. MergeError"

\* The event-occurrence join of line 74, with pandas' default suffixes.
EventOccur(ev, occ) == Merge(ev, occ, "eventID", "_x", "_y")

\* check_merge_tables, lines 69-88: the pair (df, msg) it returns.
check_merge_tables(ev, occ, emof) ==
    LET m1 == EventOccur(ev, occ)
    IN  IF m1.err
        THEN [df |-> None, msg |-> MsgMergeError]
        ELSE IF Empty(m1.tbl)
        THEN [df |-> None, msg |-> MsgMergeNoMatch]
        ELSE LET m2 == Merge(m1.tbl, emof, "occurrenceID", "", "r_")
             IN  IF m2.err
                 THEN [df |-> None, msg |-> MsgMergeError]
                 ELSE IF Empty(m2.tbl)
                 THEN [df |-> m2.tbl, msg |-> MsgMergeNoMatch]
                 ELSE [df |-> m2.tbl, msg |-> MsgMergePassed]

---------------------------------------------------------------------------
(* The field checks, lines 91-176.  A check either returns the pair        *)
(* (res, msg) or raises; the lists a message embeds are kept as fields.    *)

Returned(res, m, idx, labels) ==
    [raised |-> "", res |-> res, msg |-> m, idx |-> idx, labels |-> labels]

Raised(exc) ==
    [raised |-> exc, res |-> FALSE, msg |-> "", idx |-> <<>>, labels |-> {}]

NotRun == [raised |-> "", res |-> FALSE, msg |-> "<not run>", idx |-> <<>>,
           labels |-> {}]

\* check_required_columns, lines 91-98.
check_required_columns(tbl, columns) ==
    LET missing_cols == columns \ tbl.cols
    IN  IF missing_cols # {}
        THEN Returned(FALSE, "Failed! Missing required DwC columns.", <<>>,
                      missing_cols)
        ELSE Returned(TRUE, "Passed required columns!", <<>>, {})

\* check_null_values, lines 101-108: every column of df is inspected, the
\* columns argument is not used.
check_null_values(tbl, columns) ==
    LET missing == {c \in tbl.cols :
                       \E i \in 1..Len(tbl.rows) : IsNa(tbl.rows[i][c])}
    IN  IF missing # {}
        THEN Returned(FALSE, "Columns have missing values.", <<>>, missing)
        ELSE Returned(TRUE, "Passed null values check!", <<>>, {})

\* series <= bound / series >= bound on a column holding text: pandas
\* compares the raw cells (not the coerced ones), and Python raises
\* TypeError for an ordering comparison of a str with an int.
OrderingRaises(col) == \E i \in 1..Len(col) : col[i].t = "str"

\* One row of the boolean mask of lines 116-120 / 132-136.
OutOfBounds(c, lo, hi) ==
    \/ IsNa(ToNumeric(c))
    \/ (c.t = "num" /\ c.n <= lo)
    \/ (c.t = "num" /\ c.n >= hi)

\* invalid.index.tolist(): the 0-based positions the mask selects, in order.
RECURSIVE MaskIndex(_, _, _, _)
MaskIndex(col, lo, hi, i) ==
    IF i > Len(col) THEN <<>>
    ELSE (IF OutOfBounds(col[i], lo, hi) THEN <<i - 1>> ELSE <<>>)
         \o MaskIndex(col, lo, hi, i + 1)

\* check_latitude, lines 111-124.
check_latitude(tbl) ==
    IF "decimalLatitude" \notin tbl.cols
    THEN Returned(FALSE, "Cannot find decimalLatitude column.", <<>>, {})
    ELSE LET col == Column(tbl, "decimalLatitude")
             invalid_lat == MaskIndex(col, -90, 90, 1)
         IN  IF OrderingRaises(col) THEN Raised("TypeError")
             ELSE IF invalid_lat # <<>>
             THEN Returned(FALSE, "Invalid decimalLatitude values detected.",
                           invalid_lat, {})
             ELSE Returned(TRUE, "Passed decimalLatitude bounds!", <<>>, {})

\* check_longitude, lines 127-140.
check_longitude(tbl) ==
    IF "decimalLongitude" \notin tbl.cols
    THEN Returned(FALSE, "Cannot find decimalLongitude column.", <<>>, {})
    ELSE LET col == Column(tbl, "decimalLongitude")
             invalid_lon == MaskIndex(col, -180, 180, 1)
         IN  IF OrderingRaises(col) THEN Raised("TypeError")
             ELSE IF invalid_lon # <<>>
             THEN Returned(FALSE, "Invalid decimalLongitude values detected.",
                           invalid_lon, {})
             ELSE Returned(TRUE, "Passed decimalLongitude bounds!", <<>>, {})

\* The key line 146 looks up in df.columns: one label that is the pair of
\* the two names.  Column labels read from a CSV header are single names.
DepthKey == "(minimumDepthInMeters, maximumDepthInMeters)"

\* check_depth_consistency, lines 143-176.  Line 146 tests the pair as one
\* label, so a table whose labels are names returns at line 151.  Past
\* that test, line 170 reduces the comparison with all() to one bool and
\* line 172 reads .empty of it, which raises AttributeError; a table that
\* carries the pair label but not the minimum column raises KeyError at
\* line 153.
check_depth_consistency(tbl) ==
    IF DepthKey \notin tbl.cols
    THEN Returned(FALSE,
                  "No depth information found (minimumDepthInMeters/maximumDepthInMeters).",
                  <<>>, {})
    ELSE IF "minimumDepthInMeters" \notin tbl.cols
    THEN Raised("KeyError")
    ELSE Raised("AttributeError")

---------------------------------------------------------------------------
(* The WoRMS lookup, lines 189-219.                                        *)

\* What one requests.get call produces: a response (exc = "") with its
\* status code and, for a 200, the parsed list of candidates; or a raised
\* transport exception.  requests.get itself never raises
\* requests.exceptions.HTTPError (only Response.raise_for_status does, and
\* the code does not call it).
Response(status, body) == [exc |-> "", status |-> status, body |-> body]
Failure(exc)           == [exc |-> exc, status |-> 0, body |-> <<>>]

Candidate(status, valid_name, url) ==
    [status |-> status, valid_name |-> valid_name, url |-> url]

Accepted == Candidate("accepted", "Aa aa", "url/1")
Synonym  == Candidate("synonym", "Genus species", "url/2")

Bodies == {<<>>, <<Accepted>>, <<Synonym>>, <<Accepted, Synonym>>,
           <<Synonym, Accepted>>}

TransportErrors == {"ConnectionError", "Timeout"}

Outcomes ==
    {Response(200, b) : b \in Bodies}
        \cup {Response(c, <<>>) : c \in {204, 400, 500}}
        \cup {Failure(e) : e \in TransportErrors}

\* The decorators' arguments, lines 189 and 216.
maxsize  == 128
attempts == 3
RetryOn  == "HTTPError"

\* What check_scientific_name returns, (res, msg), the parts of the
\* message kept as fields; or the exception it lets through.
NameReturned(res, kind, name, code, unique, taxon, valid_name, url) ==
    [raised |-> "", res |-> res, kind |-> kind, name |-> name, code |-> code,
     is_unique |-> unique, taxon |-> taxon, valid_name |-> valid_name,
     url |-> url]

NameRaised(exc, name) ==
    [raised |-> exc, res |-> FALSE, kind |-> "", name |-> name, code |-> 0,
     is_unique |-> "", taxon |-> "", valid_name |-> "", url |-> ""]

NoResult == NameRaised("", "")

\* Lines 204-206.
IsUnique(results) ==
    IF Len(results) > 1 THEN "Found more than 1 match, selecting the first one"
    ELSE "Found 1 match"

\* Lines 193-213: check_scientific_name once _check_scientific_name has
\* returned the response.  results[0] of an empty list raises IndexError.
Interpret(name, response) ==
    IF response.status = 204 \/ response.status = 400
    THEN NameReturned(FALSE, "status_code", name, response.status, "", "", "", "")
    ELSE IF response.status # 200
    THEN NameReturned(FALSE, "WoRMS API Error", name, response.status, "", "",
                      "", "")
    ELSE LET results == response.body
         IN  IF results = <<>>
             THEN NameRaised("IndexError", name)
             ELSE IF results[1].status # "accepted"
             THEN NameReturned(FALSE, "Taxon status", name, 200,
                               IsUnique(results), results[1].status,
                               results[1].valid_name, results[1].url)
             ELSE NameReturned(TRUE, "accepted", name, 200, IsUnique(results),
                               "", "", "")

\* stamina.retry(on=HTTPError, attempts=3), line 216: after the n-th
\* attempt ended with outcome o, whether another attempt follows.
Retries(o, n) == o.exc = RetryOn /\ n < attempts

\* functools.lru_cache(maxsize=128), line 189.  The cache is a sequence of
\* [name, value] entries, least recently used first.  Only returned values
\* are stored: a call that raises leaves the cache as it was.
CachedNames(c) == {c[i].name : i \in 1..Len(c)}

CacheGet(c, name) == (CHOOSE i \in 1..Len(c) : c[i].name = name)

CacheTouch(c, name) ==
    SelectSeq(c, LAMBDA e : e.name # name) \o <<c[CacheGet(c, name)]>>

CachePut(c, name, value) ==
    (IF Len(c) >= maxsize THEN Tail(c) ELSE c)
        \o <<[name |-> name, value |-> value]>>

\* The outcomes drawn for the lookups of a whole run of the script.
RunOutcomes ==
    {Response(200, <<Accepted>>), Response(200, <<Synonym>>),
     Response(200, <<>>), Response(500, <<>>), Failure("ConnectionError")}

\* The names a caller may look up.
Names == {"Aa", "Bb"}

\* A call check_scientific_name(n) begins: a cache hit returns at once, a
\* miss enters _check_scientific_name.
Call(n) ==
    /\ rpc = "idle"
    /\ curName' = n
    /\ IF n \in CachedNames(cache)
       THEN /\ lastResult' = cache[CacheGet(cache, n)].value
            /\ cache' = CacheTouch(cache, n)
            /\ calls' = [calls EXCEPT ![n] = @ + 1]
            /\ attempt' = 0
            /\ lastOutcome' = Failure("")
            /\ UNCHANGED <<rpc, requests, failedCalls>>
       ELSE /\ rpc' = "fetch"
            /\ attempt' = 0
            /\ UNCHANGED <<cache, requests, lastOutcome, lastResult, calls,
                           failedCalls>>

\* One requests.get of the call in flight (line 219) ends with outcome o;
\* stamina retries or lets the exception through, and on a response the
\* rest of check_scientific_name runs and the value returned is cached.
Get(o) ==
    /\ rpc = "fetch"
    /\ attempt' = attempt + 1
    /\ requests' = [requests EXCEPT ![curName] = @ + 1]
    /\ lastOutcome' = o
    /\ UNCHANGED curName
    /\ IF o.exc # ""
       THEN IF Retries(o, attempt + 1)
            THEN UNCHANGED <<rpc, cache, lastResult, calls, failedCalls>>
            ELSE /\ rpc' = "idle"
                 /\ lastResult' = NameRaised(o.exc, curName)
                 /\ calls' = [calls EXCEPT ![curName] = @ + 1]
                 /\ failedCalls' = [failedCalls EXCEPT ![curName] = @ + 1]
                 /\ UNCHANGED cache
       ELSE LET r == Interpret(curName, o)
            IN  /\ rpc' = "idle"
                /\ lastResult' = r
                /\ calls' = [calls EXCEPT ![curName] = @ + 1]
                /\ IF r.raised # ""
                   THEN /\ failedCalls' = [failedCalls EXCEPT ![curName] = @ + 1]
                        /\ UNCHANGED cache
                   ELSE /\ cache' = CachePut(cache, curName, r)
                        /\ UNCHANGED failedCalls

ResInit ==
    /\ cache = <<>>
    /\ requests = [n \in Names |-> 0]
    /\ attempt = 0
    /\ rpc = "idle"
    /\ curName = ""
    /\ lastOutcome = Failure("")
    /\ lastResult = NoResult
    /\ calls = [n \in Names |-> 0]
    /\ failedCalls = [n \in Names |-> 0]

---------------------------------------------------------------------------
(* The input tables of a run (lines 236-244).  Rows are enumerated up to   *)
(* their order: a table lists its rows in the order of the universe.       *)

EventIDs  == <<"E1", "E2">>
OccIDs    == <<"O1", "O2">>
SciNames  == <<"Aa", "Bb">>
EventLats == <<Num(0), Str("abc")>>

\* Cells of the columns whose values no check of the run tells apart.
Filler(c) ==
    IF c \in {"decimalLatitude", "decimalLongitude", "measurementValue"}
    THEN Num(0) ELSE Str("x")

\* The k-th row of each table's universe.
EventRowOf(k) ==
    [c \in required_event_columns |->
        IF c = "eventID"
        THEN Str(EventIDs[((k - 1) \div Len(EventLats)) + 1])
        ELSE IF c = "decimalLatitude"
        THEN EventLats[((k - 1) % Len(EventLats)) + 1]
        ELSE Filler(c)]

OccRowOf(k, cols) ==
    [c \in cols |->
        IF c = "eventID"
        THEN Str(EventIDs[((k - 1) \div (Len(OccIDs) * Len(SciNames))) + 1])
        ELSE IF c = "occurrenceID"
        THEN Str(OccIDs[(((k - 1) \div Len(SciNames)) % Len(OccIDs)) + 1])
        ELSE IF c = "scientificName"
        THEN Str(SciNames[((k - 1) % Len(SciNames)) + 1])
        ELSE Filler(c)]

EmofRowOf(k) ==
    [c \in required_emof_columns |->
        IF c = "occurrenceID" THEN Str(OccIDs[k]) ELSE Filler(c)]

\* The occurrence table's header: the required columns and the event key;
\* or without the columns the event table also carries (which the first
\* merge would rename); or without scientificName.
OccColChoices ==
    {required_occurrence_columns \cup {"eventID"},
     (required_occurrence_columns \cup {"eventID"})
         \ {"eventDate", "decimalLatitude", "decimalLongitude"},
     (required_occurrence_columns \cup {"eventID"})
         \ {"eventDate", "decimalLatitude", "decimalLongitude", "scientificName"}}

\* Non-decreasing index sequences of length at most maxLen over 1..n.
SortedIdx(n, maxLen) ==
    {q \in UNION {[1..k -> 1..n] : k \in 0..maxLen} :
        \A i \in 1..(Len(q) - 1) : q[i] <= q[i + 1]}

MainInit ==
    /\ \E e \in SortedIdx(Len(EventIDs) * Len(EventLats), MaxEventRows) :
          df_event = [cols |-> required_event_columns,
                      rows |-> [i \in 1..Len(e) |-> EventRowOf(e[i])]]
    /\ \E oc \in OccColChoices :
          \E o \in SortedIdx(Len(EventIDs) * Len(OccIDs) * Len(SciNames),
                             MaxOccRows) :
             df_occurrence = [cols |-> oc,
                              rows |-> [i \in 1..Len(o) |-> OccRowOf(o[i], oc)]]
    /\ \E m \in SortedIdx(Len(OccIDs), MaxEmofRows) :
          df_emof = [cols |-> required_emof_columns,
                     rows |-> [i \in 1..Len(m) |-> EmofRowOf(m[i])]]
    /\ df = None
    /\ msg = ""
    /\ pc = "merge"
    /\ printed = <<>>

MainParked ==
    /\ df_event = None /\ df_occurrence = None /\ df_emof = None
    /\ df = None /\ msg = "" /\ pc = "" /\ printed = <<>>

---------------------------------------------------------------------------
(* __main__, lines 246-268.  pc names the statement about to run; the run  *)
(* ends at "Reported" (the script ran to its last line) or at "Aborted"    *)
(* (an exception left the script).                                         *)

\* One print(msg) of a stage.
Line(stage, r) == [stage |-> stage, msg |-> r.msg, idx |-> r.idx,
                   labels |-> r.labels, lookups |-> {}]

\* Lines 246-251.
MergeTables ==
    /\ pc = "merge"
    /\ LET r == check_merge_tables(df_event, df_occurrence, df_emof)
       IN  /\ df' = r.df
           /\ msg' = r.msg
           /\ printed' = Append(printed, Line("merge", Returned(TRUE, r.msg, <<>>, {})))
           /\ pc' = IF r.df # None THEN "required" ELSE "Reported"
    /\ UNCHANGED <<df_event, df_occurrence, df_emof>>

\* A stage of lines 252-265: run the check on df, print its message and go
\* on to the next stage; an exception the check raises ends the run.
Stage(here, r, next) ==
    /\ pc = here
    /\ IF r.raised # ""
       THEN /\ pc' = "Aborted"
            /\ UNCHANGED printed
       ELSE /\ pc' = next
            /\ printed' = Append(printed, Line(here, r))
    /\ UNCHANGED <<df_event, df_occurrence, df_emof, df, msg>>

RequiredColumns ==
    Stage("required", check_required_columns(df, required_columns), "nulls")

NullValues ==
    Stage("nulls", check_null_values(df, required_columns), "latitude")

Latitude == Stage("latitude", check_latitude(df), "longitude")

Longitude == Stage("longitude", check_longitude(df), "depth")

Depth == Stage("depth", check_depth_consistency(df), "names")

\* check_scientific_names, lines 179-186.  names is the set of distinct
\* names of the column; the comprehension of line 185 calls
\* check_scientific_name for each, in the set's order.
NameSet(tbl) == {c.s : c \in SeqToSet(Column(tbl, "scientificName"))}

\* Line 181: no scientificName column.
NamesMissing ==
    /\ pc = "names"
    /\ "scientificName" \notin df.cols
    /\ printed' = Append(printed,
                         Line("names", Returned(FALSE,
                              "Missing the scientificName column!", <<>>, {})))
    /\ pc' = "Reported"
    /\ UNCHANGED <<df_event, df_occurrence, df_emof, df, msg>>

\* Line 185: the next name of the comprehension is looked up.
NameCall ==
    /\ pc = "names"
    /\ "scientificName" \in df.cols
    /\ \E n \in NameSet(df) : calls[n] = 0 /\ Call(n)
    /\ UNCHANGED mainVars

\* Line 185: one request of the lookup in flight ends.  An exception that
\* leaves check_scientific_name leaves the comprehension and the script.
NameGet ==
    /\ pc = "names"
    /\ \E o \in RunOutcomes : Get(o)
    /\ pc' = IF rpc' = "idle" /\ lastResult'.raised # "" THEN "Aborted" ELSE pc
    /\ UNCHANGED <<df_event, df_occurrence, df_emof, df, msg, printed>>

\* Lines 186 and 268: every name has been looked up; the messages of the
\* failed lookups are printed.
NamesDone ==
    /\ pc = "names"
    /\ "scientificName" \in df.cols
    /\ rpc = "idle"
    /\ \A n \in NameSet(df) : calls[n] > 0
    /\ printed' = Append(printed,
                         [stage |-> "names", msg |-> "failed lookups", idx |-> <<>>,
                          labels |-> {},
                          lookups |-> {cache[i].value : i \in
                                        {j \in 1..Len(cache) : ~cache[j].value.res}}])
    /\ pc' = "Reported"
    /\ UNCHANGED <<df_event, df_occurrence, df_emof, df, msg>>

---------------------------------------------------------------------------
(* The tables the field checks are applied to on their own.                *)

LatCells == {Num(-90), Num(-89), Num(0), Num(90), Num(95), NaN, Str("abc")}
LonCells == {Num(-180), Num(-179), Num(0), Num(180), NaN, Str("95")}
DepthCells == {Num(0), Num(5), NaN, Str("abc")}

CoordRows ==
    {[c \in {"decimalLatitude", "decimalLongitude"} |->
         IF c = "decimalLatitude" THEN la ELSE lo] :
     la \in LatCells, lo \in LonCells}

DepthRows ==
    {[c \in {"minimumDepthInMeters", "maximumDepthInMeters"} |->
         IF c = "minimumDepthInMeters" THEN lo ELSE hi] :
     lo \in DepthCells, hi \in DepthCells}

SeqsUpTo(S, n) == UNION {[1..k -> S] : k \in 0..n}

FieldTables ==
    {[cols |-> {"decimalLatitude", "decimalLongitude"}, rows |-> r] :
        r \in SeqsUpTo(CoordRows, MaxFieldRows)}
    \cup
    {[cols |-> {"minimumDepthInMeters", "maximumDepthInMeters"}, rows |-> r] :
        r \in SeqsUpTo(DepthRows, MaxFieldRows)}

FieldInit ==
    /\ ftable \in FieldTables
    /\ latResult = NotRun
    /\ lonResult = NotRun
    /\ depthResult = NotRun

FieldParked ==
    /\ ftable = None
    /\ latResult = NotRun
    /\ lonResult = NotRun
    /\ depthResult = NotRun

CheckLatitude ==
    /\ latResult = NotRun
    /\ latResult' = check_latitude(ftable)
    /\ UNCHANGED <<ftable, lonResult, depthResult>>

CheckLongitude ==
    /\ lonResult = NotRun
    /\ lonResult' = check_longitude(ftable)
    /\ UNCHANGED <<ftable, latResult, depthResult>>

CheckDepth ==
    /\ depthResult = NotRun
    /\ depthResult' = check_depth_consistency(ftable)
    /\ UNCHANGED <<ftable, latResult, lonResult>>

---------------------------------------------------------------------------
(* Calls of check_scientific_name by any caller.                           *)

TotalCalls == calls["Aa"] + calls["Bb"]

ResolverCall ==
    /\ TotalCalls < MaxCalls
    /\ \E n \in Names : Call(n)

ResolverGet == \E o \in Outcomes : Get(o)

---------------------------------------------------------------------------
(* The specifications.                                                     *)

Init == MainInit /\ ResInit /\ FieldParked

Next ==
    \/ MergeTables /\ UNCHANGED <<resVars, fieldVars>>
    \/ RequiredColumns /\ UNCHANGED <<resVars, fieldVars>>
    \/ NullValues /\ UNCHANGED <<resVars, fieldVars>>
    \/ Latitude /\ UNCHANGED <<resVars, fieldVars>>
    \/ Longitude /\ UNCHANGED <<resVars, fieldVars>>
    \/ Depth /\ UNCHANGED <<resVars, fieldVars>>
    \/ NamesMissing /\ UNCHANGED <<resVars, fieldVars>>
    \/ NameCall /\ UNCHANGED fieldVars
    \/ NameGet /\ UNCHANGED fieldVars
    \/ NamesDone /\ UNCHANGED <<resVars, fieldVars>>

Spec == Init /\ [][Next]_vars

FieldSpecInit == FieldInit /\ MainParked /\ ResInit

FieldNext ==
    \/ CheckLatitude /\ UNCHANGED <<mainVars, resVars>>
    \/ CheckLongitude /\ UNCHANGED <<mainVars, resVars>>
    \/ CheckDepth /\ UNCHANGED <<mainVars, resVars>>

SpecField == FieldSpecInit /\ [][FieldNext]_vars

ResolverInit == ResInit /\ MainParked /\ FieldParked

ResolverNext ==
    \/ ResolverCall /\ UNCHANGED <<mainVars, fieldVars>>
    \/ ResolverGet /\ UNCHANGED <<mainVars, fieldVars>>

SpecResolver == ResolverInit /\ [][ResolverNext]_vars

---------------------------------------------------------------------------
(* The claims.                                                             *)

AllStages == {"merge", "required", "nulls", "latitude", "longitude", "depth",
              "names"}

StagesPrinted == {printed[i].stage : i \in 1..Len(printed)}

\* C1: a run never aborts: whatever the merge and the field checks find,
\* every stage (merge, required columns, nulls, latitude, longitude, depth,
\* names) runs and records its finding, and the run ends at Reported.
CE_C1_EveryStageRuns ==
    /\ pc # "Aborted"
    /\ (pc = "Reported" => StagesPrinted = AllStages)

\* C2: two calls of check_scientific_name with the same name (no eviction
\* in between: the cache holds at most two of its 128 entries) issue at
\* most one request in total, whatever the first call's outcome was.
CE_C2_AtMostOneRequest ==
    \A n \in Names : calls[n] >= 2 => requests[n] <= 1

\* A failure the claim calls retryable: a transport error, or a status
\* that is neither 2xx nor 204/400.
RetryableFailure(o) ==
    \/ o.exc # ""
    \/ (o.status \notin {204, 400} /\ ~(o.status >= 200 /\ o.status < 300))

\* C3: a lookup makes at most 3 attempts; it ends on a retryable failure
\* only after the 3rd attempt; a 204 or 400 ends it at once with a
\* not-found (failing) result.
CE_C3_RetryUpToThree ==
    (rpc = "idle" /\ attempt > 0) =>
        /\ attempt <= attempts
        /\ (RetryableFailure(lastOutcome) => attempt = attempts)
        /\ (lastOutcome.exc = "" /\ lastOutcome.status \in {204, 400} =>
                lastResult.raised = "" /\ ~lastResult.res)

\* C4: a lookup that ended in a network error, a timeout or a 5xx does not
\* raise to its caller: it returns a failing (warning) result, and the run
\* goes on to its end.
CE_C4_LookupFailureIsReturned ==
    (rpc = "idle" /\ attempt > 0
        /\ (lastOutcome.exc \in TransportErrors \/ lastOutcome.status >= 500)) =>
        /\ lastResult.raised = ""
        /\ ~lastResult.res
        /\ pc # "Aborted"

\* C5: when the left side of a join has a duplicated key (eventID in the
\* event table, occurrenceID in the event-occurrence join), the merge
\* returns the MergeError message and no table; a table it does return
\* has no more rows than the emof table (no row was duplicated).
Thm_C5_NonUniqueKeyIsError ==
    pc # "merge" =>
        LET evDup == HasDuplicates(Column(df_event, "eventID"))
            eo == [cols |-> MergeCols(df_event.cols, df_occurrence.cols,
                                      "eventID", "_x", "_y"),
                   rows |-> JoinRows(df_event.rows, df_occurrence.rows,
                                     df_event.cols, df_occurrence.cols,
                                     "eventID", "_x", "_y")]
        IN  /\ (evDup \/ HasDuplicates(Column(eo, "occurrenceID")))
                  => (df = None /\ msg = MsgMergeError)
            /\ df # None => Len(df.rows) <= Len(df_emof.rows)

\* C5's case: the event keys are unique, the event-occurrence join holds
\* an occurrenceID twice, and the merge has returned.
Wit_C5_DuplicateOccurrenceID ==
    /\ pc # "merge"
    /\ ~HasDuplicates(Column(df_event, "eventID"))
    /\ HasDuplicates(Column(EventOccur(df_event, df_occurrence).tbl,
                            "occurrenceID"))
    /\ Len(df_emof.rows) > 0
    /\ df = None
    /\ msg = MsgMergeError

\* C6: a merge reported as passed has as many rows as the emof table, and
\* a merged table with another row count is reported as a failure.
CE_C6_RowCountReconciled ==
    (pc # "merge" /\ df # None) =>
        /\ (msg = MsgMergePassed => Len(df.rows) = Len(df_emof.rows))
        /\ (Len(df.rows) # Len(df_emof.rows) => msg # MsgMergePassed)

\* C7: a join that matches no row at all returns the no-overlap message
\* and no table, so that no later stage runs on it; a join in which some
\* rows match does not return that message.
CE_C7_NoOverlapYieldsNoTable ==
    pc # "merge" =>
        LET m1 == EventOccur(df_event, df_occurrence)
            m2 == Merge(m1.tbl, df_emof, "occurrenceID", "", "r_")
            noMatch == ~m1.err /\ (Empty(m1.tbl) \/ (~m2.err /\ Empty(m2.tbl)))
        IN  /\ noMatch => /\ msg = MsgMergeNoMatch
                          /\ df = None
                          /\ StagesPrinted = {"merge"}
            /\ msg = MsgMergeNoMatch => noMatch

\* What the claim calls an invalid coordinate: not a number, or at or
\* beyond a bound.
InvalidCoordinate(c, lo, hi) ==
    \/ IsNa(ToNumeric(c))
    \/ ToNumeric(c).n <= lo
    \/ ToNumeric(c).n >= hi

CoordinateClaim(r, col, lo, hi) ==
    LET bad == {i \in 1..Len(col) : InvalidCoordinate(col[i], lo, hi)}
    IN  /\ r.raised = ""
        /\ (r.res = FALSE) <=> (bad # {})
        /\ bad # {} => SeqToSet(r.idx) = {i - 1 : i \in bad}

\* C8: on a table with the column, check_latitude fails iff some value is
\* non-numeric, <= -90 or >= 90, and lists exactly those records' indices;
\* check_longitude likewise with -180 and 180.
CE_C8_CoordinateBounds ==
    /\ (latResult # NotRun /\ "decimalLatitude" \in ftable.cols) =>
            CoordinateClaim(latResult, Column(ftable, "decimalLatitude"), -90, 90)
    /\ (lonResult # NotRun /\ "decimalLongitude" \in ftable.cols) =>
            CoordinateClaim(lonResult, Column(ftable, "decimalLongitude"),
                            -180, 180)

\* C9: on a table with both depth columns and at least one record,
\* check_depth_consistency lists the index of every record with numeric
\* minimum > maximum, lists no record with minimum <= maximum, and passes
\* a table of numeric depths without such a record.
CE_C9_DepthPerRecord ==
    (depthResult # NotRun
        /\ {"minimumDepthInMeters", "maximumDepthInMeters"} \subseteq ftable.cols
        /\ Len(ftable.rows) > 0) =>
        LET lo(i) == ftable.rows[i]["minimumDepthInMeters"]
            hi(i) == ftable.rows[i]["maximumDepthInMeters"]
            numeric(i) == lo(i).t = "num" /\ hi(i).t = "num"
            rows == 1..Len(ftable.rows)
        IN  /\ depthResult.raised = ""
            /\ \A i \in rows :
                  /\ (numeric(i) /\ lo(i).n > hi(i).n) =>
                        (~depthResult.res /\ (i - 1) \in SeqToSet(depthResult.idx))
                  /\ (numeric(i) /\ lo(i).n <= hi(i).n) =>
                        (i - 1) \notin SeqToSet(depthResult.idx)
            /\ (\A i \in rows : numeric(i) /\ lo(i).n <= hi(i).n) =>
                  depthResult.res

\* C10: after a 200 response the result follows from the candidate list:
\* none gives a failing (not-found) result; otherwise the first candidate
\* decides, "accepted" passing and any other status failing with the valid
\* name and the URL; more than one candidate is noted in the message.
CE_C10_CandidateListDecides ==
    (rpc = "idle" /\ attempt > 0 /\ lastOutcome.exc = ""
        /\ lastOutcome.status = 200) =>
        LET b == lastOutcome.body
        IN  /\ lastResult.raised = ""
            /\ b = <<>> => ~lastResult.res
            /\ b # <<>> =>
                  /\ (b[1].status = "accepted") <=> lastResult.res
                  /\ b[1].status # "accepted" =>
                        /\ lastResult.valid_name = b[1].valid_name
                        /\ lastResult.url = b[1].url
                  /\ Len(b) > 1 =>
                        lastResult.is_unique =
                            "Found more than 1 match, selecting the first one"

===========================================================================
